---- MODULE Spec2Model ----
(***************************************************************************)
(* TargetScriptAI: the four-agent content pipeline.                        *)
(*                                                                         *)
(* The model covers app/agents/{base,persona_agent,strategy_agent,         *)
(* creative_agent,qa_agent,orchestrator}.py.  Two drivers exist in the     *)
(* repository and both are modelled:                                       *)
(*   - ContentOrchestrator.generate_content, which runs the LangGraph      *)
(*     graph built by _initialize_workflow and compiles a result bundle;   *)
(*   - the manual driver of test_agents.py, which calls an agent's         *)
(*     execute() on a hand-built state and copies the update into it.      *)
(*                                                                         *)
(* Model text is a sequence of tokens (a brace, a JSON member, a JSON      *)
(* array literal, a run of six backticks, a heading, a bullet line or a    *)
(* paragraph); Python dicts are functions over a set of string keys.       *)
(***************************************************************************)
EXTENDS Integers, Sequences, FiniteSets, TLC

\* ------------------------------------------------------------------ bounds
\* How many times the manual driver calls QAAgent.execute on one state.
MaxDirectRuns == 2

\* ------------------------------------------------------------ dict helpers
EmptyDict == [k \in {} |-> TRUE]

\* dict.get(k, default)
Get(d, k, default) == IF k \in DOMAIN d THEN d[k] ELSE default

\* Python truthiness of a dict, as in: if state["persona_analysis"]
\* Mutation: the emptiness test that guards a stage always passes.
NonEmpty_Always(d) == TRUE

NonEmpty(d) == DOMAIN d # {}

\* d[k] = v on a copy of d
Put(d, k, v) == [x \in DOMAIN d \cup {k} |-> IF x = k THEN v ELSE d[x]]

\* dict.update: keys of b overwrite, keys of a that b lacks survive
DictUpdate(a, b) ==
  [k \in DOMAIN a \cup DOMAIN b |-> IF k \in DOMAIN b THEN b[k] ELSE a[k]]

\* ------------------------------------------------------------------ tokens
\* lbrace and rbrace are the characters { and }, ticks is a run of six
\* backticks, array is a JSON array literal such as [1].  heading is a line
\* that starts with one to three # and a blank, para a paragraph of plain
\* words, bullet a line that starts with a dash and a blank.
LB == [t |-> "lbrace"]
RB == [t |-> "rbrace"]
TICKS == [t |-> "ticks"]
ARR == [t |-> "array"]
Member(k, v) == [t |-> "member", k |-> k, v |-> v]
Heading(w) == [t |-> "heading", v |-> w]
Para(w) == [t |-> "para", v |-> w]
Bullet(w) == [t |-> "bullet", v |-> w]
\* deep is a line that starts with four # and a blank; star a line that
\* starts with an asterisk and a blank; numbered a line that starts with the
\* number n, a full stop and a blank; dot a line that starts with the bullet
\* character, glued when no blank follows it, and then v[1] is the first
\* character of the line's text.
Deep(w) == [t |-> "deep", v |-> w]
Star(w) == [t |-> "star", v |-> w]
Numbered(n, w) == [t |-> "numbered", n |-> n, v |-> w]
Dot(glued, w) == [t |-> "dot", glued |-> glued, v |-> w]
\* fence is a line of three backticks, with or without a language tag
FENCE == [t |-> "fence"]
\* nbsp is a non-breaking space (U+00A0) between two JSON tokens
NBSP == [t |-> "nbsp"]

\* ---------------------------------------------------------------- json.loads
\* A text decodes to a dict when it is a brace, members, a brace; the array literal
\* decodes to a list; everything else raises JSONDecodeError.
IsObjectText(txt) ==
  /\ Len(txt) >= 2
  /\ txt[1].t = "lbrace"
  /\ txt[Len(txt)].t = "rbrace"
  /\ \A i \in 2..(Len(txt) - 1) : txt[i].t = "member"

LastIndexOfKey(txt, k) ==
  CHOOSE i \in 1..Len(txt) :
    /\ txt[i].t = "member" /\ txt[i].k = k
    /\ \A j \in (i + 1)..Len(txt) : ~(txt[j].t = "member" /\ txt[j].k = k)

ObjectOf(txt) ==
  [k \in {txt[i].k : i \in {j \in 1..Len(txt) : txt[j].t = "member"}} |->
     txt[LastIndexOfKey(txt, k)].v]

json_loads(txt) ==
  IF IsObjectText(txt) THEN [ok |-> TRUE, isdict |-> TRUE, value |-> ObjectOf(txt)]
  ELSE IF Len(txt) = 1 /\ txt[1].t = "array"
       THEN [ok |-> TRUE, isdict |-> FALSE, value |-> EmptyDict]
       ELSE [ok |-> FALSE, isdict |-> FALSE, value |-> EmptyDict]

\* ----------------------------------------------- _extract_json_from_response
\* The four agents carry the same routine.  The fenced-block pattern in the
\* source is six consecutive backticks with no capture group, so a match
\* makes match.group(1) raise IndexError.
HasTicks(txt) == \E i \in 1..Len(txt) : txt[i].t = "ticks"

FirstBrace(txt) ==
  IF \E i \in 1..Len(txt) : txt[i].t = "lbrace"
  THEN CHOOSE i \in 1..Len(txt) :
         txt[i].t = "lbrace" /\ \A j \in 1..(i - 1) : txt[j].t # "lbrace"
  ELSE 0

LastBrace(txt) ==
  IF \E i \in 1..Len(txt) : txt[i].t = "rbrace"
  THEN CHOOSE i \in 1..Len(txt) :
         txt[i].t = "rbrace" /\ \A j \in (i + 1)..Len(txt) : txt[j].t # "rbrace"
  ELSE 0

_extract_json_from_response(content) ==
  IF content = <<>> THEN [raised |-> FALSE, text |-> <<>>]
  ELSE IF content[1].t = "lbrace" /\ content[Len(content)].t = "rbrace"
       THEN [raised |-> FALSE, text |-> content]
  ELSE IF HasTicks(content)
       THEN [raised |-> TRUE, text |-> <<>>]
  ELSE IF FirstBrace(content) # 0 /\ LastBrace(content) # 0
          /\ LastBrace(content) > FirstBrace(content)
       THEN [raised |-> FALSE,
             text |-> SubSeq(content, FirstBrace(content), LastBrace(content))]
  ELSE [raised |-> FALSE, text |-> content]

\* ------------------------------------------------------------- LLM transport
\* LLMService.generate_response: the dict of a completed call, or the dict of
\* the except branch (content "", error, success False; no "tokens" key).
Tokens == [input |-> 1, output |-> 1, total |-> 2]

LLMSuccess(txt) ==
  [success |-> TRUE, content |-> txt, model_name |-> "m", tokens |-> Tokens]

LLMFailure ==
  [success |-> FALSE, content |-> <<>>, error |-> "transport"]

\* One entry per LLM call an agent issued: who asked, for what, the response,
\* and the QA feedback the prompt embedded (EmptyDict when it embeds none).
Call(agent, purpose, resp, fb) ==
  [agent |-> agent, purpose |-> purpose, resp |-> resp, feedback |-> fb]

\* get_current_timestamp(): time is not modelled, every stamp is "t".
Now == "t"

ErrorEntry(agent, msg) == [agent |-> agent, error |-> msg, timestamp |-> Now]

\* What a stage returns to its driver: the update dict, or an exception,
\* together with the LLM calls it made.
\* Mutation: the update a stage returns also resets content_config.
Returned_AlsoConfig(upd, calls) ==
  [raised |-> FALSE, update |-> Put(upd, "content_config", EmptyDict), calls |-> calls]

Returned(upd, calls) == [raised |-> FALSE, update |-> upd, calls |-> calls]
Raised(calls) == [raised |-> TRUE, update |-> EmptyDict, calls |-> calls]

\* Mutation: the stage returns its own error alone and drops the earlier ones.
PreconditionError_Reset(state, agent, msg) ==
  Returned([errors |-> <<ErrorEntry(agent, msg)>>, current_stage |-> "error"], <<>>)

\* The update of a stage whose required input is missing: errors extended by
\* one entry and current_stage "error"; no LLM call was made.
PreconditionError(state, agent, msg) ==
  Returned([errors |-> Append(state.errors, ErrorEntry(agent, msg)),
            current_stage |-> "error"], <<>>)

\* ------------------------------------------------------------ persona store
\* PersonaService._personas: the ids the lookup finds.
_personas == [p \in {"p1"} |-> [id |-> p, name |-> "founder"]]

get_persona_by_id(persona_id) ==
  IF persona_id \in DOMAIN _personas THEN _personas[persona_id] ELSE EmptyDict

\* ------------------------------------------------------------- PersonaAgent
\* Mutation: a failed LLM call leaves an empty analysis.
_analyze_persona_context_EmptyOnFailure(state, result) ==
  IF result.success
  THEN LET ex == _extract_json_from_response(result.content)
           js == json_loads(ex.text)
           failed == [error |-> "Failed to parse analysis",
                      raw_content |-> result.content,
                      tokens_used |-> Get(result, "tokens", EmptyDict)]
       IN IF ex.raised THEN [raised |-> TRUE, value |-> EmptyDict]
          ELSE IF ex.text = <<>> \/ ~js.ok THEN [raised |-> FALSE, value |-> failed]
          ELSE IF ~js.isdict THEN [raised |-> TRUE, value |-> EmptyDict]
          ELSE [raised |-> FALSE,
                value |-> Put(Put(Put(js.value,
                            "persona_id", Get(state.persona_data, "id", "None")),
                            "analysis_timestamp", state.created_at),
                            "tokens_used", Get(result, "tokens", EmptyDict))]
  ELSE [raised |-> FALSE, value |-> EmptyDict]

\* _analyze_persona_context after the LLM call returned result.
\* value is the analysis dict; raised is an exception the except clause
\* (JSONDecodeError, ValueError) does not catch.
_analyze_persona_context(state, result) ==
  IF result.success
  THEN LET ex == _extract_json_from_response(result.content)
           js == json_loads(ex.text)
           failed == [error |-> "Failed to parse analysis",
                      raw_content |-> result.content,
                      tokens_used |-> Get(result, "tokens", EmptyDict)]
       IN IF ex.raised THEN [raised |-> TRUE, value |-> EmptyDict]
          ELSE IF ex.text = <<>> \/ ~js.ok THEN [raised |-> FALSE, value |-> failed]
          ELSE IF ~js.isdict THEN [raised |-> TRUE, value |-> EmptyDict]
          ELSE [raised |-> FALSE,
                value |-> Put(Put(Put(js.value,
                            "persona_id", Get(state.persona_data, "id", "None")),
                            "analysis_timestamp", state.created_at),
                            "tokens_used", Get(result, "tokens", EmptyDict))]
  ELSE [raised |-> FALSE,
        value |-> [error |-> Get(result, "error", "Analysis failed"),
                   tokens_used |-> Get(result, "tokens", EmptyDict)]]

PersonaAgent_execute(state, result) ==
  LET persona_id == Get(state.request_data, "persona_id", "")
      persona == get_persona_by_id(persona_id)
      analysis == _analyze_persona_context(state, result)
      calls == <<Call("PersonaAgent", "analyze", result, EmptyDict)>>
  IN IF persona_id = ""
     THEN PreconditionError(state, "PersonaAgent",
                            "No persona_id provided in request")
     ELSE IF ~NonEmpty(persona)
     THEN PreconditionError(state, "PersonaAgent",
                            "Persona not found")
     ELSE IF analysis.raised THEN Raised(calls)
     ELSE Returned([persona_data |-> persona,
                    persona_analysis |-> analysis.value,
                    current_stage |-> "persona_analysis"], calls)

\* ------------------------------------------------------------ StrategyAgent
_create_fallback_strategy ==
  [funnel_stage |-> "awareness",
   key_messages |-> << <<"Address">>, <<"Provide">>, <<"Build">> >>,
   cta_strategy |-> [type |-> "learn_more", placement |-> "end of content",
                     message |-> <<"Learn", "more">>]]

\* The defaults written for a required field the decoded strategy lacks.
RequiredDefault(field) ==
  IF field = "key_messages" THEN << <<"Key", "message", "not", "specified">> >>
  ELSE IF field = "cta_strategy"
       THEN [type |-> "learn_more", placement |-> "end", message |-> <<"Learn", "more">>]
       ELSE "Not specified"

WithRequiredFields(strategy) ==
  [k \in DOMAIN strategy \cup
         {"funnel_stage", "recommended_angle", "key_messages", "cta_strategy"} |->
     IF k \in DOMAIN strategy THEN strategy[k] ELSE RequiredDefault(k)]

_create_content_strategy(state, result) ==
  IF result.success
  THEN LET ex == _extract_json_from_response(result.content)
           js == json_loads(ex.text)
           failed == [error |-> "Failed to parse strategy JSON",
                      fallback_strategy |-> _create_fallback_strategy,
                      raw_content |-> result.content,
                      tokens_used |-> Get(result, "tokens", EmptyDict)]
       IN IF ex.raised THEN [raised |-> TRUE, value |-> EmptyDict]
          ELSE IF ex.text = <<>> \/ ~js.ok THEN [raised |-> FALSE, value |-> failed]
          ELSE IF ~js.isdict THEN [raised |-> TRUE, value |-> EmptyDict]
          ELSE [raised |-> FALSE,
                value |-> Put(Put(WithRequiredFields(js.value),
                            "strategy_timestamp", state.created_at),
                            "tokens_used", Get(result, "tokens", EmptyDict))]
  ELSE [raised |-> FALSE,
        value |-> [error |-> Get(result, "error", "Strategy generation failed"),
                   tokens_used |-> Get(result, "tokens", EmptyDict)]]

StrategyAgent_execute(state, result) ==
  LET strategy == _create_content_strategy(state, result)
      calls == <<Call("StrategyAgent", "strategy", result, EmptyDict)>>
  IN IF ~NonEmpty(state.persona_analysis)
     THEN PreconditionError(state, "StrategyAgent",
                            "No persona analysis available")
     ELSE IF strategy.raised THEN Raised(calls)
     ELSE Returned([strategy_plan |-> strategy.value,
                    current_stage |-> "strategy_planning"], calls)

\* ------------------------------------------------------------ CreativeAgent
\* Strings that are counted or cut are sequences of words: str.split() is the
\* sequence, and joining two strings with a blank concatenates them.
_estimate_word_count(words) == Len(words)

\* Python round(n / 200): half goes to the even neighbour.
Round200(n) ==
  LET q == n \div 200
      r == n % 200
  IN IF r < 100 THEN q
     ELSE IF r > 100 THEN q + 1
     ELSE IF q % 2 = 0 THEN q ELSE q + 1

Max(a, b) == IF a >= b THEN a ELSE b

Take(s, n) == SubSeq(s, 1, IF Len(s) < n THEN Len(s) ELSE n)

\* The words of one paragraph of model text.
Words(tok) ==
  IF tok.t = "para" THEN tok.v
  ELSE IF tok.t = "bullet" THEN <<"-">> \o tok.v
  ELSE IF tok.t = "heading" THEN <<"#">> \o tok.v
  ELSE IF tok.t = "deep" THEN <<"####">> \o tok.v
  ELSE IF tok.t = "star" THEN <<"*">> \o tok.v
  ELSE IF tok.t = "numbered" THEN <<"n.">> \o tok.v
  ELSE IF tok.t = "dot" THEN <<"dot">> \o tok.v
  ELSE <<tok.t>>

\* not p.strip().startswith('#')
NotHeading(tok) == tok.t \notin {"heading", "deep"}

\* The tests of the key-point loop, and what each appends for the line
IsBullet(tok) ==
  \/ tok.t \in {"bullet", "star", "dot"}
  \/ tok.t = "numbered" /\ tok.n \in 1..9

\* line[2:].strip() for the dash, the asterisk and the bullet character,
\* line.split('. ', 1)[1] for a numbered line
KeyPointOf(tok) ==
  IF tok.t = "dot" /\ tok.glued THEN Tail(tok.v) ELSE tok.v

RECURSIVE JoinWords(_)
JoinWords(ps) ==
  IF ps = <<>> THEN <<>> ELSE Words(Head(ps)) \o JoinWords(Tail(ps))

RECURSIVE BulletTexts(_)
BulletTexts(ps) ==
  IF ps = <<>> THEN <<>>
  ELSE (IF IsBullet(Head(ps)) THEN <<KeyPointOf(Head(ps))>> ELSE <<>>)
       \o BulletTexts(Tail(ps))

\* Mutation: the title is looked for in every line of the text.
TitleOf_AnyLine(text) ==
  IF \E i \in 1..Len(text) : text[i].t = "heading"
  THEN text[CHOOSE i \in 1..Len(text) :
              text[i].t = "heading" /\ \A j \in 1..(i - 1) : text[j].t # "heading"].v
  ELSE <<"Generated", "Content">>

\* Paragraphs are separated by a blank line, so paragraph i is line 2i - 1
\* and the first 10 lines hold the first 5 paragraphs.
TitleOf(text) ==
  LET top == Take(text, 5)
  IN IF \E i \in 1..Len(top) : top[i].t = "heading"
     THEN top[CHOOSE i \in 1..Len(top) :
                top[i].t = "heading" /\ \A j \in 1..(i - 1) : top[j].t # "heading"].v
     ELSE <<"Generated", "Content">>

_create_fallback_content(state) ==
  LET topic == Get(state.request_data, "topic", <<"Your", "Topic">>)
  IN [title |-> <<"Understanding">> \o topic,
      subtitle |-> <<"Key", "insights">>,
      introduction |-> <<"In", "todays", "landscape">> \o topic,
      main_content |-> <<"When", "it", "comes", "to">> \o topic,
      key_points |-> << <<"Understand">>, <<"Develop">>, <<"Focus">>, <<"Measure">> >>,
      call_to_action |-> <<"Ready", "to", "get", "started">>,
      meta_description |-> <<"Learn", "about">> \o topic,
      tags |-> <<topic, <<"guide">>, <<"strategy">> >>,
      word_count |-> 100,
      readability_notes |-> "Fallback content - basic structure provided"]

_convert_text_to_json(text_content, state) ==
  IF text_content = <<>> THEN _create_fallback_content(state)
  ELSE
  LET title == TitleOf(text_content)
      paragraphs == SelectSeq(text_content, NotHeading)
      introduction == IF paragraphs # <<>> THEN Words(paragraphs[1])
                      ELSE <<"Generated", "introduction">>
      main_content == IF paragraphs # <<>> THEN JoinWords(Tail(paragraphs)) ELSE <<>>
      found == BulletTexts(paragraphs)
      fromStrategy ==
        IF found = <<>> /\ NonEmpty(state.strategy_plan)
        THEN Get(state.strategy_plan, "key_messages",
                 << <<"Key", "insight", "1">>, <<"Key", "insight", "2">>,
                    <<"Key", "insight", "3">> >>)
        ELSE found
      key_points ==
        IF fromStrategy = <<>>
        THEN << <<"Key", "insight">>, <<"Important", "takeaway">>,
                <<"Actionable", "advice">> >>
        ELSE fromStrategy
      cta_strategy == IF NonEmpty(state.strategy_plan)
                      THEN Get(state.strategy_plan, "cta_strategy", EmptyDict)
                      ELSE EmptyDict
      topic == Get(state.request_data, "topic", <<>>)
      keywords == Get(state.content_config, "keywords", <<>>)
      word_count == _estimate_word_count(introduction \o main_content)
  IN [title |-> title,
      subtitle |-> <<"A", "comprehensive", "guide", "to">> \o topic,
      introduction |-> introduction,
      main_content |-> main_content,
      key_points |-> Take(key_points, 5),
      call_to_action |-> Get(cta_strategy, "message", <<"Ready", "to", "get", "started">>),
      meta_description |-> title,
      tags |-> IF keywords # <<>> THEN Take(keywords, 3)
               ELSE <<topic, <<"guide">>, <<"strategy">> >>,
      word_count |-> word_count,
      estimated_read_time |-> Max(1, Round200(word_count)),
      readability_notes |-> "Content converted from well-formatted text to JSON structure",
      conversion_note |-> "Successfully extracted structured content from LLM response",
      generation_timestamp |-> state.created_at,
      tokens_used |-> EmptyDict,
      model_used |-> "text_to_json_conversion"]

\* The decoded record with word count, read time and metadata written into it.
WithGenerationMetadata(content, state, result) ==
  LET actual_word_count ==
        _estimate_word_count(Get(content, "introduction", <<>>)
                             \o Get(content, "main_content", <<>>))
  IN Put(Put(Put(Put(Put(content,
       "word_count", actual_word_count),
       "estimated_read_time", Max(1, Round200(actual_word_count))),
       "generation_timestamp", state.created_at),
       "tokens_used", Get(result, "tokens", EmptyDict)),
       "model_used", Get(result, "model_name", "unknown"))

_generate_content(state, result) ==
  IF result.success
  THEN LET ex == _extract_json_from_response(result.content)
           js == json_loads(ex.text)
       IN IF ex.raised THEN [raised |-> TRUE, value |-> EmptyDict]
          ELSE IF ex.text # <<>> /\ js.ok /\ ~js.isdict
               THEN [raised |-> TRUE, value |-> EmptyDict]
          ELSE IF ex.text # <<>> /\ js.ok
               THEN [raised |-> FALSE,
                     value |-> WithGenerationMetadata(js.value, state, result)]
          ELSE [raised |-> FALSE,
                value |-> _convert_text_to_json(result.content, state)]
  ELSE [raised |-> FALSE,
        value |-> [error |-> Get(result, "error", "Content generation failed"),
                   fallback_content |-> _create_fallback_content(state),
                   tokens_used |-> Get(result, "tokens", EmptyDict)]]

\* Mutation: the stage adds a token to the counter with its output.
CreativeAgent_execute_CountsTokens(state, result) ==
  LET content == _generate_content(state, result)
      calls == <<Call("CreativeAgent", "generate", result, EmptyDict)>>
  IN IF ~NonEmpty(state.persona_analysis)
     THEN PreconditionError(state, "CreativeAgent",
                            "No persona analysis available")
     ELSE IF ~NonEmpty(state.strategy_plan)
     THEN PreconditionError(state, "CreativeAgent",
                            "No strategy plan available")
     ELSE IF content.raised THEN Raised(calls)
     ELSE Returned([generated_content |-> content.value,
                    total_tokens_used |-> state.total_tokens_used + 1,
                    current_stage |-> "content_generation"], calls)

CreativeAgent_execute(state, result) ==
  LET content == _generate_content(state, result)
      calls == <<Call("CreativeAgent", "generate", result, EmptyDict)>>
  IN IF ~NonEmpty(state.persona_analysis)
     THEN PreconditionError(state, "CreativeAgent",
                            "No persona analysis available")
     ELSE IF ~NonEmpty(state.strategy_plan)
     THEN PreconditionError(state, "CreativeAgent",
                            "No strategy plan available")
     ELSE IF content.raised THEN Raised(calls)
     ELSE Returned([generated_content |-> content.value,
                    current_stage |-> "content_generation"], calls)

\* ------------------------------------------------------------------ QAAgent
_analyze_content_quality(state, result) ==
  IF result.success
  THEN LET ex == _extract_json_from_response(result.content)
           js == json_loads(ex.text)
           failed == [error |-> "Failed to parse QA analysis",
                      quality_score |-> 70,
                      needs_improvement |-> FALSE,
                      raw_content |-> result.content,
                      tokens_used |-> Get(result, "tokens", EmptyDict)]
       IN IF ex.raised THEN [raised |-> TRUE, value |-> EmptyDict]
          ELSE IF ex.text = <<>> \/ ~js.ok THEN [raised |-> FALSE, value |-> failed]
          ELSE IF ~js.isdict THEN [raised |-> TRUE, value |-> EmptyDict]
          ELSE [raised |-> FALSE,
                value |-> Put(Put(js.value,
                            "qa_timestamp", state.created_at),
                            "tokens_used", Get(result, "tokens", EmptyDict))]
  ELSE [raised |-> FALSE,
        value |-> [error |-> Get(result, "error", "QA analysis failed"),
                   quality_score |-> 50,
                   needs_improvement |-> TRUE,
                   tokens_used |-> Get(result, "tokens", EmptyDict)]]

\* The word count _improve_content writes into the decoded response.
RecalculatedWordCount(improved_content) ==
  Len(Get(improved_content, "introduction", <<>>)
      \o Get(improved_content, "main_content", <<>>))

\* _improve_content: called is whether the LLM call was issued; the value is
\* the dict it returns (success, and improved_content when success).
\* The replacement table and the control-character pattern put a blank where
\* a non-breaking space stood; json.loads skips blanks between tokens.
IsNotNbsp(tok) == tok.t # "nbsp"
_clean_json_string(json_str) == SelectSeq(json_str, IsNotNbsp)

_improve_content(state, result) ==
  LET qa_feedback == state.qa_feedback
      ex == _extract_json_from_response(result.content)
      js == json_loads(_clean_json_string(ex.text))
      none == [success |-> FALSE]
  IN IF Get(qa_feedback, "improvement_suggestions", <<>>) = <<>>
     THEN [raised |-> FALSE, called |-> FALSE,
           value |-> [success |-> FALSE,
                      reason |-> "No improvement suggestions available"]]
     ELSE IF ~result.success
     THEN [raised |-> FALSE, called |-> TRUE,
           value |-> [success |-> FALSE,
                      error |-> Get(result, "error", "Content improvement failed"),
                      tokens_used |-> Get(result, "tokens", EmptyDict)]]
     ELSE IF ex.raised THEN [raised |-> TRUE, called |-> TRUE, value |-> none]
     ELSE IF ex.text = <<>> \/ ~js.ok
     THEN [raised |-> FALSE, called |-> TRUE,
           value |-> [success |-> FALSE,
                      error |-> "Failed to parse improved content",
                      raw_content |-> result.content,
                      tokens_used |-> Get(result, "tokens", EmptyDict)]]
     ELSE IF ~js.isdict THEN [raised |-> TRUE, called |-> TRUE, value |-> none]
     ELSE [raised |-> FALSE, called |-> TRUE,
           value |-> [success |-> TRUE,
                      improved_content |->
                        Put(js.value, "word_count", RecalculatedWordCount(js.value)),
                      tokens_used |-> Get(result, "tokens", EmptyDict)]]

\* Mutation: either of the two tests is enough.
ShouldImprove_Either(qa_result) ==
  \/ Get(qa_result, "needs_improvement", FALSE) = TRUE
  \/ Get(qa_result, "improvement_suggestions", <<>>) # <<>>

\* Mutation: the suggestions list is not looked at.
ShouldImprove_NeedsOnly(qa_result) ==
  Get(qa_result, "needs_improvement", FALSE) = TRUE

\* The condition of "Apply improvements if needed".
ShouldImprove(qa_result) ==
  /\ Get(qa_result, "needs_improvement", FALSE) = TRUE
  /\ Get(qa_result, "improvement_suggestions", <<>>) # <<>>

\* Mutation: the improved record replaces the original instead of patching it.
MergeImproved_Replace(generated_content, improved_content) == improved_content

\* updated_content = dict(state["generated_content"]); updated_content.update(...)
MergeImproved(generated_content, improved_content) ==
  DictUpdate(generated_content, improved_content)

QAAgent_execute(state, result, improve_result) ==
  LET warnings == IF "error" \in DOMAIN state.generated_content
                  THEN Append(state.warnings, "Content generation had errors")
                  ELSE state.warnings
      qa == _analyze_content_quality(state, result)
      qa_result == qa.value
      imp == _improve_content(state, improve_result)
      qa_call == <<Call("QAAgent", "qa", result, EmptyDict)>>
      calls == IF ~qa.raised /\ ShouldImprove(qa_result) /\ imp.called
               THEN qa_call \o <<Call("QAAgent", "improve", improve_result,
                                      state.qa_feedback)>>
               ELSE qa_call
      state_updates == [qa_feedback |-> qa_result,
                        current_stage |-> "quality_assurance",
                        warnings |-> warnings]
  IN IF ~NonEmpty(state.generated_content)
     THEN PreconditionError(state, "QAAgent",
                            "No generated content available for QA")
     ELSE IF qa.raised THEN Raised(calls)
     ELSE IF ShouldImprove(qa_result)
     THEN IF imp.raised THEN Raised(calls)
          ELSE IF imp.value.success
          THEN Returned(Put(Put(state_updates,
                  "generated_content",
                  MergeImproved(state.generated_content, imp.value.improved_content)),
                  "current_stage", "completed"), calls)
          ELSE Returned(state_updates, calls)
     ELSE Returned(Put(state_updates, "current_stage", "completed"), calls)

\* ------------------------------------------------------------ AgentState
Topic == <<"mvp">>

ContentConfig == [content_type |-> "blog_post", keywords |-> << <<"MVP">> >>]

create_agent_state(request_data, content_config) ==
  [workflow_id |-> "workflow_1",
   created_at |-> Now,
   persona_data |-> EmptyDict,
   request_data |-> request_data,
   content_config |-> content_config,
   persona_analysis |-> EmptyDict,
   strategy_plan |-> EmptyDict,
   generated_content |-> EmptyDict,
   qa_feedback |-> EmptyDict,
   agent_logs |-> <<>>,
   current_stage |-> "initialized",
   errors |-> <<>>,
   warnings |-> <<>>,
   start_time |-> "None",
   end_time |-> "None",
   total_tokens_used |-> 0]

\* A key of AgentState has no reducer, so a write replaces the old value; the
\* manual driver does the same with state[key] = value.
ApplyUpdate(state, update) ==
  [k \in DOMAIN state |-> IF k \in DOMAIN update THEN update[k] ELSE state[k]]

\* ------------------------------------------------- the texts an LLM returns
Wrapped(obj) == <<Para(<<"Here">>)>> \o obj \o <<Para(<<"Thanks">>)>>
\* An object with a non-breaking space after its opening brace
WithNbsp(obj) == <<Head(obj), NBSP>> \o Tail(obj)
Garbage == <<Para(<<"sorry">>)>>
EmptyFence == <<TICKS, Para(<<"sorry">>)>>
ArrayText == <<ARR>>

Responses(texts) == {LLMFailure} \cup {LLMSuccess(txt) : txt \in texts}

PersonaObject == <<LB, Member("key_insights", << <<"i1">> >>), RB>>
EmptyObject == <<LB, RB>>
PersonaResponses ==
  Responses({PersonaObject, EmptyObject, Wrapped(PersonaObject), WithNbsp(PersonaObject),
             Garbage, EmptyFence, ArrayText})

StrategyObject == <<LB, Member("funnel_stage", "awareness"), RB>>
StrategyResponses ==
  Responses({StrategyObject, EmptyObject, WithNbsp(StrategyObject), Garbage, EmptyFence, ArrayText})

ContentObject ==
  <<LB, Member("title", <<"A">>), Member("introduction", <<"a", "b">>),
        Member("main_content", <<"c", "d", "e">>), Member("word_count", 9), RB>>
ContentNoIntro ==
  <<LB, Member("title", <<"A">>), Member("main_content", <<"c">>), RB>>
Prose ==
  <<Heading(<<"My", "Title">>), Para(<<"Intro", "para.">>), Para(<<"Body", "para.">>),
    Bullet(<<"point", "one">>), Bullet(<<"point", "two">>)>>
CreativeResponses ==
  Responses({ContentObject, ContentNoIntro, EmptyObject, WithNbsp(ContentObject), Prose, Garbage,
             EmptyFence, ArrayText, <<>>})

QaObject(needs, suggestions) ==
  <<LB, Member("quality_score", 85), Member("needs_improvement", needs),
        Member("improvement_suggestions", suggestions), RB>>
QaNoSuggestionsKey ==
  <<LB, Member("quality_score", 60), Member("needs_improvement", TRUE), RB>>
QaResponses ==
  Responses({QaObject(FALSE, << <<"s1">> >>), QaObject(TRUE, << <<"s1">> >>),
             QaObject(TRUE, <<>>), QaObject(FALSE, <<>>), QaNoSuggestionsKey,
             WithNbsp(QaObject(FALSE, <<>>)), Garbage, EmptyFence, ArrayText})

ImproveResponses ==
  Responses({<<LB, Member("title", <<"A2">>), RB>>,
             <<LB, Member("introduction", <<"x", "y", "z">>), Member("word_count", 0), RB>>,
             <<LB, Member("main_content", <<"m">>), RB>>,
             <<LB, Member("introduction", <<"x">>), Member("main_content", <<"m", "n">>),
                   Member("word_count", 3), RB>>,
             WithNbsp(<<LB, Member("title", <<"A3">>), RB>>),
             Garbage, EmptyFence, ArrayText})

PersonaIds == {"", "p1", "ghost"}

\* -------------------------------------------------------------------- state
VARIABLES
  driver,       \* "idle", "generate_content" or "manual"
  input_state,  \* the dict generate_content built and handed to graph.ainvoke
  state,        \* the workflow state: the graph's channels, or the manual dict
  active,       \* the graph nodes triggered for the next step
  raised,       \* an exception left a node and graph.ainvoke
  invoked,      \* history: one entry per stage execution, in order
  result,       \* the result bundle generate_content returned (EmptyDict: none)
  runs,         \* how often the manual driver has called QAAgent.execute
  memory,       \* the graph's checkpointer: thread id -> channel values
  calls,        \* the concurrent generate_content calls, by workflow
  batch,        \* the generate_batch_content request being served
  text,         \* a model text handed to a text routine on its own
  extraction,   \* what _extract_json_from_response made of text (EmptyDict: not run)
  conversion,   \* what _convert_text_to_json made of text (EmptyDict: not run)
  generation    \* what CreativeAgent.execute returned for text (EmptyDict: not run)

pipeline_vars == <<driver, input_state, state, active, raised, invoked, result, runs>>
concurrent_vars == <<memory, calls>>
batch_vars == <<batch>>
text_vars == <<text, extraction, conversion, generation>>
vars == <<pipeline_vars, concurrent_vars, batch_vars, text_vars>>

END == "__end__"

\* ------------------------------------------------- ContentOrchestrator graph
\* Mutation: the QA node is wired back to the creative node instead of END.
edges_Loop ==
  {<<"agent_persona", "agent_strategy">>, <<"agent_strategy", "agent_creative">>,
   <<"agent_creative", "agent_qa">>, <<"agent_qa", "agent_creative">>}

\* Mutation: the QA node is wired back to itself instead of END.
edges_QaAgain ==
  {<<"agent_persona", "agent_strategy">>, <<"agent_strategy", "agent_creative">>,
   <<"agent_creative", "agent_qa">>, <<"agent_qa", "agent_qa">>}

\* Mutation: the persona node is also wired straight to the creative node.
edges_Fanout ==
  {<<"agent_persona", "agent_strategy">>, <<"agent_persona", "agent_creative">>,
   <<"agent_strategy", "agent_creative">>, <<"agent_creative", "agent_qa">>,
   <<"agent_qa", END>>}

\* workflow.add_edge(...)
edges ==
  {<<"agent_persona", "agent_strategy">>, <<"agent_strategy", "agent_creative">>,
   <<"agent_creative", "agent_qa">>, <<"agent_qa", END>>}

\* workflow.add_conditional_edges(node, path, path_map)
conditional_edges ==
  [agent_persona |-> [continue |-> "agent_strategy", error |-> END],
   agent_strategy |-> [continue |-> "agent_creative", error |-> END],
   agent_creative |-> [continue |-> "agent_qa", error |-> END]]

\* _should_continue_after_persona / _strategy / _creative: the same body.
_should_continue(st) == IF st.errors # <<>> THEN "error" ELSE "continue"

\* The nodes a finished node triggers: every target of a plain edge out of it,
\* and the target its conditional edge selects.  END triggers nothing.
NextNodes(node, st) ==
  ({e[2] : e \in {d \in edges : d[1] = node}}
   \cup (IF node \in DOMAIN conditional_edges
         THEN {conditional_edges[node][_should_continue(st)]}
         ELSE {}))
  \ {END}

\* The history entry of one stage execution: the agent, the state it was
\* given and what it returned.
Invocation(agent, st, out) == [agent |-> agent, before |-> st, out |-> out]

\* One step of graph.ainvoke: the node runs on the current channels, its
\* update is written, and the next nodes are triggered; an exception leaves
\* the graph.
RunNode(node, agent, out) ==
  /\ driver = "generate_content"
  /\ node \in active
  /\ ~raised
  /\ invoked' = Append(invoked, Invocation(agent, state, out))
  /\ IF out.raised
     THEN /\ raised' = TRUE
          /\ active' = {}
          /\ state' = state
     ELSE /\ raised' = FALSE
          /\ state' = ApplyUpdate(state, out.update)
          /\ active' = NextNodes(node, ApplyUpdate(state, out.update))
  /\ UNCHANGED <<driver, input_state, result, runs, concurrent_vars, batch_vars, text_vars>>

_agent_persona_node ==
  \E r \in PersonaResponses :
    RunNode("agent_persona", "PersonaAgent", PersonaAgent_execute(state, r))

_agent_strategy_node ==
  \E r \in StrategyResponses :
    RunNode("agent_strategy", "StrategyAgent", StrategyAgent_execute(state, r))

_agent_creative_node ==
  \E r \in CreativeResponses :
    RunNode("agent_creative", "CreativeAgent", CreativeAgent_execute(state, r))

_agent_qa_node ==
  \E r \in QaResponses, ir \in ImproveResponses :
    RunNode("agent_qa", "QAAgent", QAAgent_execute(state, r, ir))

\* ------------------------------------------------------- generate_content
_compile_results(st) ==
  LET success == Len(st.errors) = 0
  IN [success |-> success,
      workflow_id |-> st.workflow_id,
      current_stage |-> st.current_stage,
      content |-> IF success THEN st.generated_content ELSE EmptyDict,
      persona_analysis |-> IF success THEN st.persona_analysis ELSE EmptyDict,
      strategy_plan |-> IF success THEN st.strategy_plan ELSE EmptyDict,
      qa_feedback |-> IF success THEN st.qa_feedback ELSE EmptyDict,
      metrics |-> [total_tokens_used |-> st.total_tokens_used,
                   estimated_cost |-> st.total_tokens_used,
                   quality_score |-> IF NonEmpty(st.qa_feedback)
                                     THEN Get(st.qa_feedback, "quality_score", 0)
                                     ELSE 0,
                   agent_count |-> Cardinality({k \in {"persona_analysis",
                                      "strategy_plan", "generated_content",
                                      "qa_feedback"} : NonEmpty(st[k])}),
                   warnings_count |-> Len(st.warnings),
                   errors_count |-> Len(st.errors)],
      agent_logs |-> st.agent_logs,
      errors |-> st.errors,
      warnings |-> st.warnings,
      created_at |-> st.created_at,
      started_at |-> st.start_time,
      completed_at |-> st.end_time]

\* The dict the except branch of generate_content returns.
ExceptionResult(st) ==
  [success |-> FALSE,
   error |-> "exception",
   workflow_id |-> Get(st, "workflow_id", "unknown"),
   current_stage |-> Get(st, "current_stage", "error"),
   metrics |-> [total_tokens_used |-> 0, estimated_cost |-> 0, quality_score |-> 0,
                agent_count |-> 0, warnings_count |-> 0, errors_count |-> 1]]

\* generate_content up to graph.ainvoke: the initial state is built and the
\* graph is entered at its entry point.
generate_content_start ==
  /\ driver = "idle"
  /\ \E persona_id \in PersonaIds :
       LET st == [create_agent_state([persona_id |-> persona_id, topic |-> Topic,
                                      context |-> ""], ContentConfig)
                  EXCEPT !.start_time = Now]
       IN input_state' = st /\ state' = st
  /\ driver' = "generate_content"
  /\ active' = {"agent_persona"}
  /\ UNCHANGED <<raised, invoked, result, runs, concurrent_vars, batch_vars, text_vars>>

\* generate_content after graph.ainvoke: the final state is compiled, or the
\* except branch builds the bundle from the local state it still holds.
generate_content_return ==
  /\ driver = "generate_content"
  /\ active = {}
  /\ ~NonEmpty(result)
  /\ result' = IF raised THEN ExceptionResult(input_state)
               ELSE _compile_results([state EXCEPT !.end_time = Now])
  /\ UNCHANGED <<driver, input_state, state, active, raised, invoked, runs,
               concurrent_vars, batch_vars, text_vars>>

\* ------------------------------------------------------------ manual driver
\* test_individual_agents: a hand-built state, CreativeAgent.execute, then
\* QAAgent.execute when there is content; each update is copied into the
\* state.  An exception ends the driver.  The driver may review the updated
\* state again (MaxDirectRuns calls of QAAgent.execute in all).
manual_start ==
  /\ driver = "idle"
  /\ driver' = "manual"
  /\ state' = [create_agent_state(EmptyDict, EmptyDict) EXCEPT
                 !.persona_data = [name |-> "Tech Founder"],
                 !.persona_analysis = [key_insights |-> << <<"Values", "speed">> >>],
                 !.strategy_plan =
                    [funnel_stage |-> "awareness",
                     key_messages |-> << <<"Start", "small">>, <<"Iterate">> >>,
                     cta_strategy |-> [type |-> "learn_more",
                                       message |-> <<"Get", "started", "today">>]]]
  /\ active' = {"agent_creative"}
  /\ UNCHANGED <<input_state, raised, invoked, result, runs, concurrent_vars, batch_vars, text_vars>>

ManualRun(agent, out, next) ==
  /\ driver = "manual"
  /\ ~raised
  /\ invoked' = Append(invoked, Invocation(agent, state, out))
  /\ IF out.raised
     THEN raised' = TRUE /\ active' = {} /\ state' = state
     ELSE /\ raised' = FALSE
          /\ state' = ApplyUpdate(state, out.update)
          /\ active' = IF NonEmpty(ApplyUpdate(state, out.update).generated_content)
                       THEN next ELSE {}
  /\ UNCHANGED <<driver, input_state, result, concurrent_vars, batch_vars, text_vars>>

manual_creative ==
  /\ "agent_creative" \in active
  /\ \E r \in CreativeResponses :
       ManualRun("CreativeAgent", CreativeAgent_execute(state, r), {"agent_qa"})
  /\ UNCHANGED runs

manual_qa ==
  /\ "agent_qa" \in active
  /\ runs < MaxDirectRuns
  /\ runs' = runs + 1
  /\ \E r \in QaResponses, ir \in ImproveResponses :
       ManualRun("QAAgent", QAAgent_execute(state, r, ir), {"agent_qa"})

\* ---------------------------------------- concurrent generate_content calls
\* Two requests served at once by the one orchestrator get_content_orchestrator
\* hands out: the calls share the compiled graph and its checkpointer, and
\* each stage execution of either call is one step.

\* generate_id("workflow"): a fresh token per call
Workflows == {"workflow_a", "workflow_b"}

\* Mutation: the thread id is the orchestrator's own id, the same for all calls.
ThreadId_Orchestrator(st) == "workflow_0"

\* config = {"configurable": {"thread_id": state["workflow_id"]}}
ThreadId(st) == st.workflow_id

\* What the LLM answers in the concurrent calls
ConcurrentReplies(node) ==
  CASE node = "agent_persona" -> {LLMFailure, LLMSuccess(PersonaObject)}
    [] node = "agent_strategy" -> {LLMSuccess(StrategyObject), LLMSuccess(ArrayText)}
    [] node = "agent_creative" -> {LLMFailure, LLMSuccess(ContentObject)}
    [] node = "agent_qa" -> {LLMSuccess(QaObject(FALSE, <<>>)), LLMSuccess(Garbage)}

\* The node functions _agent_persona_node .. _agent_qa_node
Execute(node, st, resp) ==
  CASE node = "agent_persona" -> PersonaAgent_execute(st, resp)
    [] node = "agent_strategy" -> StrategyAgent_execute(st, resp)
    [] node = "agent_creative" -> CreativeAgent_execute(st, resp)
    [] node = "agent_qa" -> QAAgent_execute(st, resp, LLMFailure)

IdleCall ==
  [phase |-> "idle", state |-> EmptyDict, thread_id |-> "", active |-> {},
   raised |-> FALSE, replies |-> <<>>, result |-> EmptyDict, overlapped |-> FALSE]

\* Another call is in the middle of its graph run.
OtherMidRun(w) ==
  \E v \in Workflows \ {w} :
    calls[v].phase = "running" /\ calls[v].replies # <<>> /\ calls[v].active # {}

\* generate_content up to graph.ainvoke, for workflow w: the local state is
\* built and written to the channels of the call's thread.
concurrent_start(w) ==
  /\ calls[w].phase = "idle"
  /\ \E persona_id \in {"p1", "ghost"} :
       LET st == [create_agent_state([persona_id |-> persona_id, topic |-> Topic,
                                      context |-> ""], ContentConfig)
                  EXCEPT !.workflow_id = w, !.start_time = Now]
       IN /\ calls' = [calls EXCEPT ![w] =
                         [phase |-> "running", state |-> st,
                          thread_id |-> ThreadId(st), active |-> {"agent_persona"},
                          raised |-> FALSE, replies |-> <<>>, result |-> EmptyDict,
                          overlapped |-> FALSE]]
          /\ memory' = Put(memory, ThreadId(st), st)
  /\ UNCHANGED <<pipeline_vars, batch_vars, text_vars>>

\* One step of the graph for workflow w: a triggered node runs on the channel
\* values of the call's thread and its update is written back to them.
\* replies and overlapped are history: the answers the call got, and whether
\* a step of it ran while another call was in the middle of its run.
concurrent_node(w) ==
  /\ calls[w].phase = "running"
  /\ \E node \in calls[w].active :
       \E resp \in ConcurrentReplies(node) :
         LET st == memory[calls[w].thread_id]
             out == Execute(node, st, resp)
             replies == Append(calls[w].replies, resp)
         IN IF out.raised
            THEN /\ calls' = [calls EXCEPT ![w].raised = TRUE, ![w].active = {},
                                           ![w].replies = replies,
                                           ![w].overlapped = @ \/ OtherMidRun(w)]
                 /\ memory' = memory
            ELSE /\ calls' = [calls EXCEPT
                                ![w].active = NextNodes(node, ApplyUpdate(st, out.update)),
                                ![w].replies = replies,
                                ![w].overlapped = @ \/ OtherMidRun(w)]
                 /\ memory' = [memory EXCEPT ![calls[w].thread_id] =
                                                ApplyUpdate(st, out.update)]
  /\ UNCHANGED <<pipeline_vars, batch_vars, text_vars>>

\* generate_content after graph.ainvoke, for workflow w
concurrent_return(w) ==
  /\ calls[w].phase = "running"
  /\ calls[w].active = {}
  /\ calls' = [calls EXCEPT
                 ![w].phase = "returned",
                 ![w].result =
                    IF calls[w].raised THEN ExceptionResult(calls[w].state)
                    ELSE _compile_results([memory[calls[w].thread_id]
                                             EXCEPT !.end_time = Now])]
  /\ UNCHANGED <<memory, pipeline_vars, batch_vars, text_vars>>

\* ------------------------------------------------- generate_batch_content
\* The largest batch a caller submits
MaxRequests == 12

\* "Maximum 10 requests allowed per batch"
MaxBatchRequests == 10

\* Mutation: the size test never rejects.
BatchTooLarge_Never(n) == FALSE

\* if len(requests) > 10
BatchTooLarge(n) == n > MaxBatchRequests

IdleBatch ==
  [phase |-> "idle", requests |-> 0, awaiting |-> FALSE, in_flight |-> 0,
   started |-> 0, workflow_ids |-> <<>>]

\* The endpoint is called with a list of requests: too long a list is
\* answered with HTTP 400 before the loop, any other enters the loop.
batch_submit ==
  /\ batch.phase = "idle"
  /\ \E n \in 0..MaxRequests :
       batch' = [batch EXCEPT !.requests = n,
                              !.phase = IF BatchTooLarge(n) THEN "rejected"
                                        ELSE "running"]
  /\ UNCHANGED <<pipeline_vars, concurrent_vars, text_vars>>

\* The request the loop is at
BatchPending ==
  /\ batch.phase = "running"
  /\ ~batch.awaiting
  /\ Len(batch.workflow_ids) < batch.requests

\* validate_persona_exists or validate_content_config raises: the except
\* branch records the request as failed and the loop goes on.
batch_request_invalid ==
  /\ BatchPending
  /\ batch' = [batch EXCEPT !.workflow_ids = Append(@, "failed")]
  /\ UNCHANGED <<pipeline_vars, concurrent_vars, text_vars>>

\* The request is valid: orchestrator.generate_content is called and awaited.
batch_run_start ==
  /\ BatchPending
  /\ batch' = [batch EXCEPT !.awaiting = TRUE,
                            !.in_flight = @ + 1,
                            !.started = @ + 1]
  /\ UNCHANGED <<pipeline_vars, concurrent_vars, text_vars>>

\* The awaited run returns its bundle: the request is recorded as started.
batch_run_return ==
  /\ batch.phase = "running"
  /\ batch.awaiting
  /\ batch' = [batch EXCEPT !.awaiting = FALSE,
                            !.in_flight = @ - 1,
                            !.workflow_ids = Append(@, "started")]
  /\ UNCHANGED <<pipeline_vars, concurrent_vars, text_vars>>

\* The loop is over: the endpoint answers with the list.
batch_return ==
  /\ batch.phase = "running"
  /\ ~batch.awaiting
  /\ Len(batch.workflow_ids) = batch.requests
  /\ batch' = [batch EXCEPT !.phase = "returned"]
  /\ UNCHANGED <<pipeline_vars, concurrent_vars, text_vars>>

\* ------------------------------------------------ text routines on their own
\* The longest free-form piece of a model text
MaxTextLen == 2

\* All sequences over S of length up to n
SeqsUpTo(S, n) == UNION {[1..k -> S] : k \in 0..n}

\* What a text handed to the extraction is made of
ExtractionAlphabet ==
  {LB, RB, TICKS, FENCE, ARR, Member("a", 1), Para(<<"x">>)}

\* Short texts, and short texts inside a fenced block with prose in front
ExtractionTexts ==
  LET short == SeqsUpTo(ExtractionAlphabet, MaxTextLen)
  IN short
     \cup {<<FENCE>> \o t \o <<FENCE>> : t \in short}
     \cup {<<Para(<<"x">>), FENCE>> \o t \o <<FENCE>> : t \in short}

\* The most paragraphs put in front of a short text
MaxPadding == 5

\* What a prose text handed to the converter is made of
ProseAlphabet ==
  {Heading(<<"My", "Title">>), Deep(<<"Details">>), Para(<<"Intro", "para.">>),
   Bullet(<<"point", "one">>), Star(<<"point", "two">>),
   Numbered(1, <<"first">>), Numbered(10, <<"tenth">>),
   Dot(FALSE, <<"Point">>), Dot(TRUE, <<"P", "oint">>)}

RECURSIVE Repeat(_, _)
Repeat(tok, n) == IF n = 0 THEN <<>> ELSE <<tok>> \o Repeat(tok, n - 1)

\* Short prose, short prose after some paragraphs, and a list of six bullets
ProseTexts ==
  LET short == SeqsUpTo(ProseAlphabet, MaxTextLen)
  IN {Repeat(Para(<<"Body", "para.">>), k) \o t : k \in 0..MaxPadding, t \in short}
     \cup {Repeat(Bullet(<<"point">>), 6)}

\* The strategy plans of the states handed to the converter
Plans ==
  {EmptyDict,
   [funnel_stage |-> "awareness"],
   [key_messages |-> <<>>],
   [key_messages |-> << <<"m1">>, <<"m2">>, <<"m3">>, <<"m4">>, <<"m5">>, <<"m6">> >>]}

\* The state of a run that reached the Generation stage with strategy plan
ConverterState(plan) ==
  [create_agent_state([persona_id |-> "p1", topic |-> Topic, context |-> ""],
                      ContentConfig)
   EXCEPT !.persona_analysis = [key_insights |-> << <<"i1">> >>],
          !.strategy_plan = plan]

\* One of the agents calls _extract_json_from_response(text).
extract_json ==
  /\ extraction = EmptyDict
  /\ extraction' = _extract_json_from_response(text)
  /\ UNCHANGED <<text, conversion, generation, pipeline_vars, concurrent_vars, batch_vars>>

\* _convert_text_to_json(text, state) on a state with some strategy plan
convert_text ==
  /\ conversion = EmptyDict
  /\ \E plan \in Plans :
       conversion' = [plan |-> plan,
                      record |-> _convert_text_to_json(text, ConverterState(plan))]
  /\ UNCHANGED <<text, extraction, generation, pipeline_vars, concurrent_vars, batch_vars>>

\* CreativeAgent.execute on a state whose LLM call is answered by text
generate_from_text ==
  /\ generation = EmptyDict
  /\ generation' = CreativeAgent_execute(ConverterState([funnel_stage |-> "awareness"]),
                                         LLMSuccess(text))
  /\ UNCHANGED <<text, extraction, conversion, pipeline_vars, concurrent_vars, batch_vars>>

\* ------------------------------------------------------------ specification
IdleInit ==
  /\ driver = "idle"
  /\ input_state = EmptyDict
  /\ state = create_agent_state(EmptyDict, EmptyDict)
  /\ active = {}
  /\ raised = FALSE
  /\ invoked = <<>>
  /\ result = EmptyDict
  /\ runs = 0
  /\ memory = EmptyDict
  /\ calls = [w \in Workflows |-> IdleCall]
  /\ batch = IdleBatch

Init ==
  /\ IdleInit
  /\ text = <<>>
  /\ extraction = EmptyDict
  /\ conversion = EmptyDict
  /\ generation = EmptyDict

Next ==
  \/ generate_content_start
  \/ _agent_persona_node
  \/ _agent_strategy_node
  \/ _agent_creative_node
  \/ _agent_qa_node
  \/ generate_content_return
  \/ manual_start
  \/ manual_creative
  \/ manual_qa

Spec == Init /\ [][Next]_vars

\* Two concurrent calls of generate_content on the shared orchestrator
ConcurrentNext ==
  \/ \E w \in Workflows : concurrent_start(w)
  \/ \E w \in Workflows : concurrent_node(w)
  \/ \E w \in Workflows : concurrent_return(w)

ConcurrentSpec == Init /\ [][ConcurrentNext]_vars

\* One call of the batch endpoint
BatchNext ==
  \/ batch_submit
  \/ batch_request_invalid
  \/ batch_run_start
  \/ batch_run_return
  \/ batch_return

BatchSpec == Init /\ [][BatchNext]_vars

\* A text routine applied to one text
Texts == ExtractionTexts \cup ProseTexts

TextInit ==
  /\ IdleInit
  /\ text \in Texts
  /\ extraction = EmptyDict
  /\ conversion = EmptyDict
  /\ generation = EmptyDict

TextNext ==
  \/ extract_json
  \/ convert_text
  \/ generate_from_text

TextSpec == TextInit /\ [][TextNext]_vars

\* =================================================================== claims
Orchestrated == driver = "generate_content"
Returned_ == NonEmpty(result)

\* The QA executions of the history, by position.
QaRuns == {i \in 1..Len(invoked) : invoked[i].agent = "QAAgent"}

\* The refinement calls a stage execution issued.
ImproveCalls(inv) ==
  {j \in 1..Len(inv.out.calls) : inv.out.calls[j].purpose = "improve"}

\* The QA record of a QA execution that got as far as its analysis.
HasQaRecord(inv) ==
  /\ Len(inv.out.calls) >= 1
  /\ ~_analyze_content_quality(inv.before, inv.out.calls[1].resp).raised
QaRecord(inv) == _analyze_content_quality(inv.before, inv.out.calls[1].resp).value

\* needs_improvement = true and a non-empty improvement_suggestions list
WantsRefinement(qa) ==
  /\ "needs_improvement" \in DOMAIN qa /\ qa["needs_improvement"] = TRUE
  /\ "improvement_suggestions" \in DOMAIN qa /\ qa["improvement_suggestions"] # <<>>

\* C1: in an orchestrated run no stage executes once errors is non-empty (so
\* no stage-output field is written after that point either): every stage
\* that ran was handed a state whose errors was still empty.
C1_ShortCircuit ==
  Orchestrated =>
    \A i \in 1..Len(invoked) : invoked[i].before.errors = <<>>

\* C2: a run whose persona_id is missing or unknown returns success = false,
\* current_stage = "error" and exactly one error, the Persona stage's.
C2_PersonaNotFound ==
  (Returned_ /\ input_state.request_data.persona_id \notin DOMAIN _personas) =>
    /\ result.success = FALSE
    /\ result.current_stage = "error"
    /\ Len(result.errors) = 1
    /\ result.errors[1].agent = "PersonaAgent"

\* A stage call that succeeded and returned a clean JSON object.
CleanCall(c) == c.resp.success /\ IsObjectText(c.resp.content)

HappyRun ==
  /\ Orchestrated
  /\ Returned_
  /\ input_state.request_data.persona_id \in DOMAIN _personas
  /\ Len(invoked) = 4
  /\ \A i \in 1..4 :
       /\ ~invoked[i].out.raised
       /\ Len(invoked[i].out.calls) = 1
       /\ CleanCall(invoked[i].out.calls[1])
  /\ "needs_improvement" \in DOMAIN state.qa_feedback
  /\ state.qa_feedback["needs_improvement"] = FALSE

\* C3: persona found, four clean stage calls and needs_improvement = false
\* give success = true, current_stage = "completed" and errors = [].
C3_HappyPath ==
  HappyRun =>
    /\ result.success = TRUE
    /\ result.current_stage = "completed"
    /\ result.errors = <<>>

C3_Witness == HappyRun /\ result.success = TRUE /\ NonEmpty(result.content)

\* C4: every result bundle reports a terminal stage: "completed" when success
\* is true and "error" when it is false.
C4_TerminalStage ==
  Returned_ =>
    /\ result.success = TRUE => result.current_stage = "completed"
    /\ result.success = FALSE => result.current_stage = "error"

\* C5: when a stage raised, the bundle has success = false, current_stage =
\* "error" and carries the exception as an entry of errors.
C5_ExceptionContained ==
  (Orchestrated /\ Returned_ /\ raised) =>
    /\ result.success = FALSE
    /\ result.current_stage = "error"
    /\ "errors" \in DOMAIN result
    /\ Len(result.errors) >= 1

\* The refinement response could not be used: the call failed, or the text
\* did not decode.
RefinementFailed(c) ==
  \/ ~c.resp.success
  \/ /\ ~_extract_json_from_response(c.resp.content).raised
     /\ LET txt == _extract_json_from_response(c.resp.content).text
        IN txt = <<>> \/ ~json_loads(txt).ok

\* C6: when the refinement call fails or its response does not parse, the QA
\* update leaves generated_content as it was, appends nothing to errors and
\* sets current_stage to "completed".
C6_RefinementFailureNonFatal ==
  \A i \in QaRuns :
    \A j \in ImproveCalls(invoked[i]) :
      RefinementFailed(invoked[i].out.calls[j]) =>
        /\ ~invoked[i].out.raised
        /\ "generated_content" \notin DOMAIN invoked[i].out.update
        /\ "errors" \notin DOMAIN invoked[i].out.update
        /\ invoked[i].out.update.current_stage = "completed"

\* C7: when the QA analysis of a run wants refinement, the QA stage issues
\* exactly one refinement call, built from that analysis.
C7_RefinementIssued ==
  Orchestrated =>
    \A i \in QaRuns :
      (HasQaRecord(invoked[i]) /\ WantsRefinement(QaRecord(invoked[i]))) =>
        /\ Cardinality(ImproveCalls(invoked[i])) = 1
        /\ \A j \in ImproveCalls(invoked[i]) :
             invoked[i].out.calls[j].feedback = QaRecord(invoked[i])

\* C8: a refinement call is issued, or the QA update contains
\* generated_content, only if the QA record has needs_improvement = true and
\* a non-empty improvement_suggestions list.
C8_RefinementOnlyWhenWanted ==
  \A i \in QaRuns :
    (\/ ImproveCalls(invoked[i]) # {}
     \/ "generated_content" \in DOMAIN invoked[i].out.update) =>
      /\ HasQaRecord(invoked[i])
      /\ WantsRefinement(QaRecord(invoked[i]))

C8_Witness ==
  \E i \in QaRuns :
    /\ ImproveCalls(invoked[i]) # {}
    /\ "generated_content" \in DOMAIN invoked[i].out.update
    /\ WantsRefinement(QaRecord(invoked[i]))

\* The QA executions whose refinement response decoded and was merged.
Merges ==
  {i \in QaRuns : /\ ~invoked[i].out.raised
                  /\ ImproveCalls(invoked[i]) # {}
                  /\ "generated_content" \in DOMAIN invoked[i].out.update}

\* The dict the refinement response of a merge decodes to, once extracted
\* and normalized (a QA execution issues at most one refinement call).
ResponseOf(inv) ==
  LET c == inv.out.calls[CHOOSE j \in ImproveCalls(inv) : TRUE]
  IN json_loads(_clean_json_string(
       _extract_json_from_response(c.resp.content).text)).value

\* C9 as stated: the merged record takes the response's value for every key
\* of the response and keeps the original's value for every other key.
C9_MergeAllKeys ==
  \A i \in Merges :
    LET orig == invoked[i].before.generated_content
        resp == ResponseOf(invoked[i])
        merged == invoked[i].out.update.generated_content
    IN /\ DOMAIN orig \subseteq DOMAIN merged
       /\ \A k \in DOMAIN resp : merged[k] = resp[k]
       /\ \A k \in DOMAIN orig \ DOMAIN resp : merged[k] = orig[k]

\* C9 amended: the same for every key other than word_count; no key of the
\* original is removed.
C9_MergeKeysButWordCount ==
  \A i \in Merges :
    LET orig == invoked[i].before.generated_content
        resp == ResponseOf(invoked[i])
        merged == invoked[i].out.update.generated_content
    IN /\ DOMAIN orig \subseteq DOMAIN merged
       /\ \A k \in DOMAIN resp \ {"word_count"} : merged[k] = resp[k]
       /\ \A k \in (DOMAIN orig \ DOMAIN resp) \ {"word_count"} : merged[k] = orig[k]

C9_Witness ==
  \E i \in Merges :
    /\ "title" \in DOMAIN ResponseOf(invoked[i])
    /\ "main_content" \notin DOMAIN ResponseOf(invoked[i])
    /\ "main_content" \in DOMAIN invoked[i].before.generated_content
    /\ invoked[i].out.update.generated_content["title"] = <<"A2">>

\* C10: after a merge, word_count is the number of words of the merged
\* record's introduction followed by its main body.
C10_WordCountOfMerged ==
  \A i \in Merges :
    LET merged == invoked[i].out.update.generated_content
    IN merged["word_count"] =
         Len(Get(merged, "introduction", <<>>) \o Get(merged, "main_content", <<>>))

\* A text that holds no JSON value: neither the whole text nor the span from
\* its first opening brace to its last closing brace decodes.
HoldsNoJson(txt) ==
  /\ ~json_loads(txt).ok
  /\ ~(/\ FirstBrace(txt) # 0
       /\ LastBrace(txt) > FirstBrace(txt)
       /\ json_loads(SubSeq(txt, FirstBrace(txt), LastBrace(txt))).ok)

\* The first LLM call of a stage execution got an answer that holds no JSON.
ParseFailed(inv) ==
  /\ Len(inv.out.calls) >= 1
  /\ inv.out.calls[1].resp.success
  /\ HoldsNoJson(inv.out.calls[1].resp.content)

\* The first LLM call of a stage execution failed in transport.
TransportFailed(inv) ==
  /\ Len(inv.out.calls) >= 1
  /\ ~inv.out.calls[1].resp.success

\* The stage returned a qa_feedback with this score and this needs_improvement
\* and left errors alone.
QaDefault(inv, score, needs) ==
  /\ ~inv.out.raised
  /\ "qa_feedback" \in DOMAIN inv.out.update
  /\ "quality_score" \in DOMAIN inv.out.update.qa_feedback
  /\ inv.out.update.qa_feedback["quality_score"] = score
  /\ "needs_improvement" \in DOMAIN inv.out.update.qa_feedback
  /\ inv.out.update.qa_feedback["needs_improvement"] = needs
  /\ "errors" \notin DOMAIN inv.out.update

\* C11: a QA execution whose analysis call succeeded with a text that cannot
\* be decoded as JSON returns qa_feedback with quality_score 70 and
\* needs_improvement false; one whose analysis call failed returns
\* quality_score 50 and needs_improvement true; neither appends to errors and
\* neither raises.
C11_QaDefaults ==
  \A i \in QaRuns :
    /\ ParseFailed(invoked[i]) => QaDefault(invoked[i], 70, FALSE)
    /\ TransportFailed(invoked[i]) => QaDefault(invoked[i], 50, TRUE)

\* C12: in an orchestrated run a stage whose LLM call failed in transport, or
\* was answered by a text that cannot be decoded, appends nothing to errors
\* and does not stop the run: unless it is the last stage, the next stage has
\* executed when the run returns. An update extends errors only when the
\* stage made no LLM call at all (its precondition failed).
C12_OnlyPreconditionsHalt ==
  Orchestrated =>
    \A i \in 1..Len(invoked) :
      /\ (ParseFailed(invoked[i]) \/ TransportFailed(invoked[i])) =>
           /\ ~invoked[i].out.raised
           /\ "errors" \notin DOMAIN invoked[i].out.update
           /\ Returned_ => (invoked[i].agent = "QAAgent" \/ Len(invoked) > i)
      /\ (~invoked[i].out.raised /\ "errors" \in DOMAIN invoked[i].out.update) =>
           invoked[i].out.calls = <<>>

\* The stage was handed a state that lacks an input it requires.
PreconditionUnmet(inv) ==
  \/ /\ inv.agent = "StrategyAgent"
     /\ DOMAIN inv.before.persona_analysis = {}
  \/ /\ inv.agent = "CreativeAgent"
     /\ \/ DOMAIN inv.before.persona_analysis = {}
        \/ DOMAIN inv.before.strategy_plan = {}
  \/ /\ inv.agent = "QAAgent"
     /\ DOMAIN inv.before.generated_content = {}

\* s extends t by exactly one entry
ExtendsByOne(s, t) == Len(s) = Len(t) + 1 /\ SubSeq(s, 1, Len(t)) = t

\* C13: a stage whose precondition is unmet makes no LLM call and returns an
\* update that consists of errors, extended by exactly one entry, and
\* current_stage = "error", and of nothing else (no stage-output field).
C13_PreconditionFailure ==
  \A i \in 1..Len(invoked) :
    PreconditionUnmet(invoked[i]) =>
      /\ invoked[i].out.calls = <<>>
      /\ ~invoked[i].out.raised
      /\ DOMAIN invoked[i].out.update = {"errors", "current_stage"}
      /\ ExtendsByOne(invoked[i].out.update.errors, invoked[i].before.errors)
      /\ invoked[i].out.update.current_stage = "error"

\* Each of the three stages has failed its precondition in one run.
C13_Witness ==
  \A a \in {"StrategyAgent", "CreativeAgent", "QAAgent"} :
    \E i \in 1..Len(invoked) :
      invoked[i].agent = a /\ PreconditionUnmet(invoked[i])

\* C14: every stage execution that returns leaves agent_logs one entry
\* longer than it found it, and the bundle of a run that compiled its results
\* has one agent_logs entry per stage executed.
C14_OneLogPerStage ==
  /\ \A i \in 1..Len(invoked) :
       ~invoked[i].out.raised =>
         Len(ApplyUpdate(invoked[i].before, invoked[i].out.update).agent_logs)
           = Len(invoked[i].before.agent_logs) + 1
  /\ (Orchestrated /\ Returned_ /\ "agent_logs" \in DOMAIN result) =>
       Len(result.agent_logs) = Len(invoked)

\* t is a prefix of s
IsPrefix(t, s) == Len(t) <= Len(s) /\ SubSeq(s, 1, Len(t)) = t

\* The state a stage execution that returned leaves behind.
After(inv) == ApplyUpdate(inv.before, inv.out.update)

\* The entries of a sequence
Range(s) == {s[j] : j \in 1..Len(s)}

\* C15: every update a stage makes keeps the errors and the warnings it found
\* as a prefix of the new sequence, and the bundle a run returns holds, in its
\* errors, every entry any stage of the run appended.
C15_AppendOnly ==
  /\ \A i \in 1..Len(invoked) :
       ~invoked[i].out.raised =>
         /\ IsPrefix(invoked[i].before.errors, After(invoked[i]).errors)
         /\ IsPrefix(invoked[i].before.warnings, After(invoked[i]).warnings)
  /\ (Orchestrated /\ Returned_) =>
       \A i \in 1..Len(invoked) :
         ~invoked[i].out.raised =>
           Range(After(invoked[i]).errors) \subseteq Range(Get(result, "errors", <<>>))

\* A run returned after a stage extended an errors sequence that already had
\* an entry.
C15_Witness ==
  /\ Orchestrated /\ Returned_
  /\ \E i \in 1..Len(invoked) :
       /\ ~invoked[i].out.raised
       /\ invoked[i].before.errors # <<>>
       /\ Len(After(invoked[i]).errors) > Len(invoked[i].before.errors)

\* The four stage-output fields of a result bundle
StageOutputs == {"content", "persona_analysis", "strategy_plan", "qa_feedback"}

\* C16: a returned bundle with success = true carries the four stage-output
\* records, metrics, agent_logs and the timestamps; one with success = false
\* carries none of the stage outputs and carries both an error message and
\* the errors sequence.
C16_BundleShape ==
  (Orchestrated /\ Returned_) =>
    /\ result.success = TRUE =>
         /\ \A k \in StageOutputs : k \in DOMAIN result /\ DOMAIN result[k] # {}
         /\ {"metrics", "agent_logs", "created_at", "started_at", "completed_at"}
              \subseteq DOMAIN result
    /\ result.success = FALSE =>
         /\ \A k \in StageOutputs : k \in DOMAIN result => DOMAIN result[k] = {}
         /\ "error" \in DOMAIN result
         /\ "errors" \in DOMAIN result

\* The fields of a content record the claim names
ContentFields ==
  {"title", "introduction", "main_content", "key_points", "call_to_action"}

\* C17: a Generation execution whose LLM call failed returns, as
\* generated_content, the fallback record itself (it has the content fields
\* and they are those of the record built from the topic) marked as fallback,
\* appends nothing to errors, and in an orchestrated run the QA stage then
\* executes on that record.
C17_FallbackRecord ==
  \A i \in 1..Len(invoked) :
    (invoked[i].agent = "CreativeAgent" /\ TransportFailed(invoked[i])) =>
      /\ ~invoked[i].out.raised
      /\ "errors" \notin DOMAIN invoked[i].out.update
      /\ "generated_content" \in DOMAIN invoked[i].out.update
      /\ ContentFields \subseteq DOMAIN invoked[i].out.update.generated_content
      /\ \A k \in ContentFields :
           invoked[i].out.update.generated_content[k]
             = _create_fallback_content(invoked[i].before)[k]
      /\ "readability_notes" \in DOMAIN invoked[i].out.update.generated_content
      /\ (Orchestrated /\ Returned_) =>
           /\ Len(invoked) > i
           /\ invoked[i + 1].agent = "QAAgent"
           /\ invoked[i + 1].before.generated_content
                = invoked[i].out.update.generated_content

\* graph.ainvoke of one call running alone from state st with the nodes of
\* active triggered, the LLM answering with replies in order.
RECURSIVE GraphAlone(_, _, _)
GraphAlone(st, nodes, replies) ==
  IF nodes = {} \/ replies = <<>>
  THEN [raised |-> FALSE, state |-> st]
  ELSE LET node == CHOOSE n \in nodes : TRUE
           out == Execute(node, st, Head(replies))
       IN IF out.raised
          THEN [raised |-> TRUE, state |-> st]
          ELSE GraphAlone(ApplyUpdate(st, out.update),
                          NextNodes(node, ApplyUpdate(st, out.update)),
                          Tail(replies))

\* The bundle a call returns when it runs alone and gets the same replies.
AloneResult(call) ==
  LET alone == GraphAlone(call.state, {"agent_persona"}, call.replies)
  IN IF alone.raised THEN ExceptionResult(call.state)
     ELSE _compile_results([alone.state EXCEPT !.end_time = Now])

\* C18: two calls of generate_content with distinct workflow ids that run at
\* once on the shared orchestrator do not touch each other's state: at every
\* moment the channel values a call works on are those the same call has
\* when it runs alone and gets the same LLM answers, and the bundle a call
\* returns is the bundle it returns alone.
C18_Isolation ==
  \A w \in Workflows :
    /\ (calls[w].phase = "running" /\ ~calls[w].raised) =>
         memory[calls[w].thread_id]
           = GraphAlone(calls[w].state, {"agent_persona"}, calls[w].replies).state
    /\ calls[w].phase = "returned" => calls[w].result = AloneResult(calls[w])

\* Both calls returned after steps of each ran in the middle of the other's
\* run, one with a bundle of success and one with a bundle of failure.
C18_Witness ==
  /\ \A w \in Workflows : calls[w].phase = "returned" /\ calls[w].overlapped
  /\ \E v, w \in Workflows :
       calls[v].result.success = TRUE /\ calls[w].result.success = FALSE

\* C19: a batch never has more than 10 runs in flight at once, and a batch
\* of more than 10 requests is rejected without any run having been started.
C19_BatchBounded ==
  /\ batch.in_flight <= 10
  /\ (batch.phase # "idle" /\ batch.requests > 10) =>
       batch.phase = "rejected" /\ batch.started = 0

\* A batch of exactly 10 requests, all valid, has its tenth run in flight.
C19_Witness ==
  batch.requests = 10 /\ batch.started = 10 /\ batch.in_flight = 1

\* The place of a stage name in the order of the stages
StageOrder ==
  <<"initialized", "persona_analysis", "strategy_planning", "content_generation",
    "quality_assurance", "completed">>
StageRank(stage) == CHOOSE n \in 1..Len(StageOrder) : StageOrder[n] = stage

\* C20: in an orchestrated run every step either leaves current_stage where
\* it is, moves it forward in the order of the stages, or sets it to "error";
\* and a step taken when it is "error" leaves it "error".
C20_StageMonotone ==
  [][(Orchestrated /\ Orchestrated') =>
       /\ state.current_stage = "error" => state'.current_stage = "error"
       /\ state.current_stage # "error" =>
            \/ state'.current_stage = "error"
            \/ StageRank(state'.current_stage) >= StageRank(state.current_stage)]_vars

\* A run returned with current_stage "error" after stages ran on a state
\* whose current_stage already was "error".
C20_Witness ==
  /\ Orchestrated /\ Returned_
  /\ state.current_stage = "error"
  /\ \E i \in 1..Len(invoked) : invoked[i].before.current_stage = "error"

\* The agents in pipeline order
StageSequence == <<"PersonaAgent", "StrategyAgent", "CreativeAgent", "QAAgent">>

\* The stage executions of the history whose update writes field f
Writers(f) == {i \in 1..Len(invoked) : f \in DOMAIN invoked[i].out.update}

\* C21: in an orchestrated run the i-th stage execution is that of the i-th
\* stage of the pipeline (so the stages run in order, each at most once); the
\* first is handed the input state and every later one the state that results
\* from applying the previous stage's whole update; and each of
\* persona_analysis, strategy_plan and qa_feedback is written at most once.
C21_SequentialStages ==
  Orchestrated =>
    /\ Len(invoked) <= Len(StageSequence)
    /\ \A i \in 1..Len(invoked) :
         /\ invoked[i].agent = StageSequence[i]
         /\ i = 1 => invoked[i].before = input_state
         /\ i > 1 => /\ ~invoked[i - 1].out.raised
                     /\ invoked[i].before = After(invoked[i - 1])
    /\ \A f \in {"persona_analysis", "strategy_plan", "qa_feedback"} :
         Cardinality(Writers(f)) <= 1

\* A run returned after all four stages ran and each wrote its output.
C21_Witness ==
  /\ Orchestrated /\ Returned_
  /\ Len(invoked) = 4
  /\ \A f \in {"persona_analysis", "strategy_plan", "qa_feedback"} :
       Cardinality(Writers(f)) = 1

\* The bookkeeping fields any stage may write
Bookkeeping == {"current_stage", "errors", "warnings", "agent_logs"}

\* The stage-output fields a stage owns; the QA stage may patch
\* generated_content.
Owned(agent) ==
  CASE agent = "PersonaAgent" -> {"persona_data", "persona_analysis"}
    [] agent = "StrategyAgent" -> {"strategy_plan"}
    [] agent = "CreativeAgent" -> {"generated_content"}
    [] agent = "QAAgent" -> {"qa_feedback", "generated_content"}

\* C22: the update of a stage execution writes only fields the stage owns
\* and bookkeeping fields, so request_data and content_config stay as they
\* were when the run started; the QA stage writes generated_content only as
\* the patch of a refinement call that succeeded.
C22_FieldOwnership ==
  /\ \A i \in 1..Len(invoked) :
       ~invoked[i].out.raised =>
         /\ DOMAIN invoked[i].out.update \subseteq
              Owned(invoked[i].agent) \cup Bookkeeping
         /\ After(invoked[i]).request_data = invoked[i].before.request_data
         /\ After(invoked[i]).content_config = invoked[i].before.content_config
         /\ (invoked[i].agent = "QAAgent"
               /\ "generated_content" \in DOMAIN invoked[i].out.update) =>
              \E j \in ImproveCalls(invoked[i]) :
                invoked[i].out.calls[j].resp.success
  /\ Orchestrated =>
       /\ state.request_data = input_state.request_data
       /\ state.content_config = input_state.content_config

\* A QA execution patched generated_content, after a Generation execution
\* wrote it.
C22_Witness ==
  \E i, j \in 1..Len(invoked) :
    /\ invoked[i].agent = "CreativeAgent"
    /\ "generated_content" \in DOMAIN invoked[i].out.update
    /\ invoked[j].agent = "QAAgent"
    /\ "generated_content" \in DOMAIN invoked[j].out.update
    /\ After(invoked[j]).generated_content # invoked[j].before.generated_content

\* The fenced blocks of a text: a pair of fence lines with the lines between
\* them, no fence line among those.
FencePairs(txt) ==
  {p \in (1..Len(txt)) \X (1..Len(txt)) :
     /\ p[1] < p[2]
     /\ txt[p[1]].t = "fence" /\ txt[p[2]].t = "fence"
     /\ \A k \in (p[1] + 1)..(p[2] - 1) : txt[k].t # "fence"}

HasFencedBlock(txt) == FencePairs(txt) # {} \/ HasTicks(txt)

\* The inner content of the first fenced block; six backticks in a row are a
\* fenced block with nothing inside.
FirstFencedContent(txt) ==
  LET firstPair == CHOOSE p \in FencePairs(txt) :
                     \A q \in FencePairs(txt) : p[1] <= q[1]
      firstTicks == CHOOSE i \in 1..Len(txt) :
                      txt[i].t = "ticks" /\ \A j \in 1..(i - 1) : txt[j].t # "ticks"
  IN IF FencePairs(txt) = {} THEN <<>>
     ELSE IF HasTicks(txt) /\ firstTicks < firstPair[1] THEN <<>>
     ELSE SubSeq(txt, firstPair[1] + 1, firstPair[2] - 1)

\* The four rules of extraction, first match winning
ExpectedExtraction(txt) ==
  IF txt # <<>> /\ txt[1].t = "lbrace" /\ txt[Len(txt)].t = "rbrace" THEN txt
  ELSE IF HasFencedBlock(txt) THEN FirstFencedContent(txt)
  ELSE IF FirstBrace(txt) # 0 /\ LastBrace(txt) > FirstBrace(txt)
       THEN SubSeq(txt, FirstBrace(txt), LastBrace(txt))
  ELSE txt

\* C23: extraction returns the text itself when it starts with an opening
\* and ends with a closing brace; otherwise the inner content of a fenced
\* block when the text has one; otherwise the span from the first opening to
\* the last closing brace when there is one; otherwise the text unchanged.
C23_ExtractionRules ==
  extraction # EmptyDict =>
    /\ ~extraction.raised
    /\ extraction.text = ExpectedExtraction(text)

\* C24: extraction never raises, whatever the text: it always returns a
\* string.
C24_ExtractionNeverRaises ==
  extraction # EmptyDict => ~extraction.raised

\* The text with every non-breaking space turned into a blank
Normalized(txt) == SelectSeq(txt, LAMBDA tok : tok.t # "nbsp")

\* The call was answered by a text that is a JSON object once normalized.
ObjectOnceNormalized(c) ==
  c.resp.success /\ IsObjectText(Normalized(c.resp.content))

\* The stage decoded the answer of its call number j.
Decoded(inv, j) ==
     IF inv.out.calls[j].purpose = "improve"
     THEN "generated_content" \in DOMAIN inv.out.update
     ELSE \E f \in {"persona_analysis", "strategy_plan", "generated_content",
                    "qa_feedback"} \cap Owned(inv.agent) :
            /\ f \in DOMAIN inv.out.update
            /\ "error" \notin DOMAIN inv.out.update[f]
            /\ "conversion_note" \notin DOMAIN inv.out.update[f]
            /\ f = "generated_content" => inv.agent = "CreativeAgent"

\* C25: in every stage and for the refinement answer the model text is
\* normalized before it is extracted and decoded: an answer that is a JSON
\* object but for a non-breaking space is decoded by the stage that got it
\* (stage executions that raised apart).
C25_NormalizedFirst ==
  \A i \in 1..Len(invoked) :
    ~invoked[i].out.raised =>
      \A j \in 1..Len(invoked[i].out.calls) :
        ObjectOnceNormalized(invoked[i].out.calls[j]) => Decoded(invoked[i], j)


\* JSON decoding of the text was attempted and failed: extraction returned a
\* non-empty text that is no JSON value.
DecodingFailed(txt) ==
  LET ex == _extract_json_from_response(txt)
  IN ~ex.raised /\ ex.text # <<>> /\ ~json_loads(ex.text).ok

\* A paragraph that starts with a hash sign counts as a heading paragraph;
\* a title heading has one to three hash signs.
HeadingParagraph(tok) == tok.t = "heading" \/ tok.t = "deep"

\* The first 10 lines hold the first 5 paragraphs of a text whose paragraphs
\* are single lines separated by blank lines.
TitleLines(txt) == {i \in 1..Len(txt) : i <= 5 /\ txt[i].t = "heading"}

ExpectedTitle(txt) ==
  IF TitleLines(txt) = {} THEN <<"Generated", "Content">>
  ELSE txt[CHOOSE i \in TitleLines(txt) : \A j \in TitleLines(txt) : i <= j].v

ProseParagraphs(txt) == SelectSeq(txt, LAMBDA tok : ~HeadingParagraph(tok))

RECURSIVE JoinedByBlankLines(_)
JoinedByBlankLines(ps) ==
  IF ps = <<>> THEN <<>> ELSE Words(ps[1]) \o JoinedByBlankLines(Tail(ps))

ListLine(tok) ==
  \/ tok.t \in {"bullet", "star", "dot"}
  \/ tok.t = "numbered" /\ tok.n >= 1 /\ tok.n <= 9

MarkersRemoved(txt) ==
  LET lines == SelectSeq(txt, ListLine)
  IN [i \in 1..Len(lines) |-> lines[i].v]

FirstFive(items) == SubSeq(items, 1, IF Len(items) < 5 THEN Len(items) ELSE 5)

KeyMessages(plan) ==
  IF "key_messages" \in DOMAIN plan THEN plan.key_messages ELSE <<>>

\* C27: the converted record's key_points are the bullet and numbered lines
\* of the prose with exactly the marker removed and the rest of the line
\* kept; without such lines they are the strategy's key messages, and without
\* those a placeholder list of 3 items; they are never more than 5.
C27_KeyPoints ==
  (conversion # EmptyDict /\ text # <<>>) =>
    LET key_points == conversion.record.key_points
        listed == MarkersRemoved(text)
        messages == KeyMessages(conversion.plan)
    IN /\ Len(key_points) <= 5
       /\ listed # <<>> => key_points = FirstFive(listed)
       /\ (listed = <<>> /\ messages # <<>>) => key_points = FirstFive(messages)
       /\ (listed = <<>> /\ messages = <<>>) => Len(key_points) = 3

\* The persona lookup of the run succeeded: the first stage returned
\* persona data and no error.
PersonaFound ==
  /\ Len(invoked) >= 1
  /\ ~invoked[1].out.raised
  /\ "errors" \notin DOMAIN invoked[1].out.update
  /\ "persona_data" \in DOMAIN invoked[1].out.update

NoStageRaised == ~raised /\ \A i \in 1..Len(invoked) : ~invoked[i].out.raised

\* The output record each of the first three stages leaves for the later ones
OutputOf(agent) ==
  CASE agent = "PersonaAgent" -> "persona_analysis"
    [] agent = "StrategyAgent" -> "strategy_plan"
    [] agent = "CreativeAgent" -> "generated_content"
    [] OTHER -> "qa_feedback"

\* C28: in an orchestrated run whose persona lookup succeeds and in which no
\* stage raises, every stage leaves a non-empty output record, whatever the
\* LLM answered, so the precondition of every later stage holds when it
\* executes, and errors is empty when the run ends.
C28_PreconditionsHold ==
  (Orchestrated /\ PersonaFound /\ NoStageRaised) =>
    /\ \A i \in 1..Len(invoked) :
         /\ ~PreconditionUnmet(invoked[i])
         /\ DOMAIN After(invoked[i])[OutputOf(invoked[i].agent)] # {}
         /\ After(invoked[i]).errors = <<>>
    /\ Returned_ => (state.errors = <<>> /\ Len(invoked) = 4)

\* A run with a found persona ended after the LLM failed in transport for one
\* stage and answered another with text that does not parse.
C28_Witness ==
  /\ Orchestrated /\ Returned_ /\ PersonaFound /\ NoStageRaised
  /\ \E i \in 1..3 : TransportFailed(invoked[i])
  /\ \E i \in 1..3 : ParseFailed(invoked[i])
  /\ state.errors = <<>>

\* The LLM calls of the history that succeeded
SucceededCalls ==
  {<<i, j>> \in (1..Len(invoked)) \X (1..2) :
     j <= Len(invoked[i].out.calls) /\ invoked[i].out.calls[j].resp.success}

\* C29: nothing writes total_tokens_used: it is 0 in every state a stage is
\* handed and in every state of a run, no update of a stage holds it, and the
\* metrics of every result bundle report 0 tokens and a cost of 0, however
\* many LLM calls succeeded.
C29_TokensNeverCounted ==
  /\ state.total_tokens_used = 0
  /\ \A i \in 1..Len(invoked) :
       /\ invoked[i].before.total_tokens_used = 0
       /\ "total_tokens_used" \notin DOMAIN invoked[i].out.update
  /\ Returned_ =>
       /\ "metrics" \in DOMAIN result
       /\ result.metrics.total_tokens_used = 0
       /\ result.metrics.estimated_cost = 0

\* A run returned a successful bundle after the LLM call of each of the four
\* stages succeeded and reported the tokens it used.
C29_Witness ==
  /\ Orchestrated /\ Returned_
  /\ result.success = TRUE
  /\ Cardinality(SucceededCalls) = 4
  /\ \A c \in SucceededCalls :
       invoked[c[1]].out.calls[c[2]].resp.tokens # EmptyDict
  /\ result.metrics.total_tokens_used = 0

\* A step of an invocation of generate_content that has started
GraphStep ==
  \/ _agent_persona_node
  \/ _agent_strategy_node
  \/ _agent_creative_node
  \/ _agent_qa_node
  \/ generate_content_return

\* The LLM calls of the history, as pairs of stage execution and position
AllCalls ==
  {c \in (1..Len(invoked)) \X (1..2) : c[2] <= Len(invoked[c[1]].out.calls)}

\* C30: an invocation of generate_content, every LLM call of which returns,
\* can take a step until it has returned its bundle, and every step but the
\* last is one of at most four stage executions, so it terminates; it issues
\* at most five LLM calls, one per stage and at most one refinement call, and
\* none is repeated after it failed.
C30_BoundedRun ==
  Orchestrated =>
    /\ Len(invoked) <= 4
    /\ Cardinality(AllCalls) <= 5
    /\ \A i \in 1..Len(invoked) :
         /\ \A j \in 1..(i - 1) : invoked[j].agent # invoked[i].agent
         /\ Len(invoked[i].out.calls) <= (IF invoked[i].agent = "QAAgent" THEN 2 ELSE 1)
         /\ Len(invoked[i].out.calls) = 2 =>
              invoked[i].out.calls[1].purpose # invoked[i].out.calls[2].purpose
    /\ ~Returned_ => ENABLED GraphStep
    /\ Returned_ => ~ENABLED GraphStep

\* A run returned its bundle after four stage executions in which an LLM call
\* failed.
C30_Witness ==
  /\ Orchestrated /\ Returned_
  /\ Len(invoked) = 4
  /\ Cardinality(AllCalls) = 4
  /\ \E i \in 1..4 : TransportFailed(invoked[i])
=============================================================================
